---- MODULE Spec2Model ----
(***************************************************************************)
(* vidua/bps.py: validation and application of BPS patches.                *)
(*                                                                         *)
(* A stream (io.BytesIO) is a byte sequence plus a read position.  Byte i  *)
(* of a Python bytes object (0-based) is element i + 1 of the sequence.    *)
(* A 32-bit checksum is kept as its four little-endian bytes: the code     *)
(* compares zlib.crc32(...) with int.from_bytes(read(4), 'little'), and    *)
(* two 32-bit values are equal exactly when their four bytes are.          *)
(***************************************************************************)
EXTENDS Integers, Sequences, FiniteSets, TLC

(***************************************************************************)
(* Bit operations on bytes, and zlib.crc32.                                *)
(***************************************************************************)
\* a ^ b for 4-bit values: NibbleXor[a + 1][b + 1]
NibbleXor ==
    <<
      <<0, 1, 2, 3, 4, 5, 6, 7, 8, 9, 10, 11, 12, 13, 14, 15>>,
      <<1, 0, 3, 2, 5, 4, 7, 6, 9, 8, 11, 10, 13, 12, 15, 14>>,
      <<2, 3, 0, 1, 6, 7, 4, 5, 10, 11, 8, 9, 14, 15, 12, 13>>,
      <<3, 2, 1, 0, 7, 6, 5, 4, 11, 10, 9, 8, 15, 14, 13, 12>>,
      <<4, 5, 6, 7, 0, 1, 2, 3, 12, 13, 14, 15, 8, 9, 10, 11>>,
      <<5, 4, 7, 6, 1, 0, 3, 2, 13, 12, 15, 14, 9, 8, 11, 10>>,
      <<6, 7, 4, 5, 2, 3, 0, 1, 14, 15, 12, 13, 10, 11, 8, 9>>,
      <<7, 6, 5, 4, 3, 2, 1, 0, 15, 14, 13, 12, 11, 10, 9, 8>>,
      <<8, 9, 10, 11, 12, 13, 14, 15, 0, 1, 2, 3, 4, 5, 6, 7>>,
      <<9, 8, 11, 10, 13, 12, 15, 14, 1, 0, 3, 2, 5, 4, 7, 6>>,
      <<10, 11, 8, 9, 14, 15, 12, 13, 2, 3, 0, 1, 6, 7, 4, 5>>,
      <<11, 10, 9, 8, 15, 14, 13, 12, 3, 2, 1, 0, 7, 6, 5, 4>>,
      <<12, 13, 14, 15, 8, 9, 10, 11, 4, 5, 6, 7, 0, 1, 2, 3>>,
      <<13, 12, 15, 14, 9, 8, 11, 10, 5, 4, 7, 6, 1, 0, 3, 2>>,
      <<14, 15, 12, 13, 10, 11, 8, 9, 6, 7, 4, 5, 2, 3, 0, 1>>,
      <<15, 14, 13, 12, 11, 10, 9, 8, 7, 6, 5, 4, 3, 2, 1, 0>>
    >>

\* a ^ b for bytes
Xor8(a, b) ==
    NibbleXor[(a % 16) + 1][(b % 16) + 1] + 16 * NibbleXor[(a \div 16) + 1][(b \div 16) + 1]

\* x ^ y on 32-bit words held as four little-endian bytes
Xor32(x, y) == <<Xor8(x[1], y[1]), Xor8(x[2], y[2]), Xor8(x[3], y[3]), Xor8(x[4], y[4])>>

\* x >> 8 on a 32-bit word
Shr8(x) == <<x[2], x[3], x[4], 0>>

\* zlib's CRC-32 table (reflected polynomial 0xEDB88320), each entry as its four
\* little-endian bytes: CrcTable[n + 1] is the CRC of the byte n
CrcTable ==
    <<
      <<0, 0, 0, 0>>, <<150, 48, 7, 119>>, <<44, 97, 14, 238>>, <<186, 81, 9, 153>>,
      <<25, 196, 109, 7>>, <<143, 244, 106, 112>>, <<53, 165, 99, 233>>, <<163, 149, 100, 158>>,
      <<50, 136, 219, 14>>, <<164, 184, 220, 121>>, <<30, 233, 213, 224>>, <<136, 217, 210, 151>>,
      <<43, 76, 182, 9>>, <<189, 124, 177, 126>>, <<7, 45, 184, 231>>, <<145, 29, 191, 144>>,
      <<100, 16, 183, 29>>, <<242, 32, 176, 106>>, <<72, 113, 185, 243>>, <<222, 65, 190, 132>>,
      <<125, 212, 218, 26>>, <<235, 228, 221, 109>>, <<81, 181, 212, 244>>, <<199, 133, 211, 131>>,
      <<86, 152, 108, 19>>, <<192, 168, 107, 100>>, <<122, 249, 98, 253>>, <<236, 201, 101, 138>>,
      <<79, 92, 1, 20>>, <<217, 108, 6, 99>>, <<99, 61, 15, 250>>, <<245, 13, 8, 141>>,
      <<200, 32, 110, 59>>, <<94, 16, 105, 76>>, <<228, 65, 96, 213>>, <<114, 113, 103, 162>>,
      <<209, 228, 3, 60>>, <<71, 212, 4, 75>>, <<253, 133, 13, 210>>, <<107, 181, 10, 165>>,
      <<250, 168, 181, 53>>, <<108, 152, 178, 66>>, <<214, 201, 187, 219>>, <<64, 249, 188, 172>>,
      <<227, 108, 216, 50>>, <<117, 92, 223, 69>>, <<207, 13, 214, 220>>, <<89, 61, 209, 171>>,
      <<172, 48, 217, 38>>, <<58, 0, 222, 81>>, <<128, 81, 215, 200>>, <<22, 97, 208, 191>>,
      <<181, 244, 180, 33>>, <<35, 196, 179, 86>>, <<153, 149, 186, 207>>, <<15, 165, 189, 184>>,
      <<158, 184, 2, 40>>, <<8, 136, 5, 95>>, <<178, 217, 12, 198>>, <<36, 233, 11, 177>>,
      <<135, 124, 111, 47>>, <<17, 76, 104, 88>>, <<171, 29, 97, 193>>, <<61, 45, 102, 182>>,
      <<144, 65, 220, 118>>, <<6, 113, 219, 1>>, <<188, 32, 210, 152>>, <<42, 16, 213, 239>>,
      <<137, 133, 177, 113>>, <<31, 181, 182, 6>>, <<165, 228, 191, 159>>, <<51, 212, 184, 232>>,
      <<162, 201, 7, 120>>, <<52, 249, 0, 15>>, <<142, 168, 9, 150>>, <<24, 152, 14, 225>>,
      <<187, 13, 106, 127>>, <<45, 61, 109, 8>>, <<151, 108, 100, 145>>, <<1, 92, 99, 230>>,
      <<244, 81, 107, 107>>, <<98, 97, 108, 28>>, <<216, 48, 101, 133>>, <<78, 0, 98, 242>>,
      <<237, 149, 6, 108>>, <<123, 165, 1, 27>>, <<193, 244, 8, 130>>, <<87, 196, 15, 245>>,
      <<198, 217, 176, 101>>, <<80, 233, 183, 18>>, <<234, 184, 190, 139>>, <<124, 136, 185, 252>>,
      <<223, 29, 221, 98>>, <<73, 45, 218, 21>>, <<243, 124, 211, 140>>, <<101, 76, 212, 251>>,
      <<88, 97, 178, 77>>, <<206, 81, 181, 58>>, <<116, 0, 188, 163>>, <<226, 48, 187, 212>>,
      <<65, 165, 223, 74>>, <<215, 149, 216, 61>>, <<109, 196, 209, 164>>, <<251, 244, 214, 211>>,
      <<106, 233, 105, 67>>, <<252, 217, 110, 52>>, <<70, 136, 103, 173>>, <<208, 184, 96, 218>>,
      <<115, 45, 4, 68>>, <<229, 29, 3, 51>>, <<95, 76, 10, 170>>, <<201, 124, 13, 221>>,
      <<60, 113, 5, 80>>, <<170, 65, 2, 39>>, <<16, 16, 11, 190>>, <<134, 32, 12, 201>>,
      <<37, 181, 104, 87>>, <<179, 133, 111, 32>>, <<9, 212, 102, 185>>, <<159, 228, 97, 206>>,
      <<14, 249, 222, 94>>, <<152, 201, 217, 41>>, <<34, 152, 208, 176>>, <<180, 168, 215, 199>>,
      <<23, 61, 179, 89>>, <<129, 13, 180, 46>>, <<59, 92, 189, 183>>, <<173, 108, 186, 192>>,
      <<32, 131, 184, 237>>, <<182, 179, 191, 154>>, <<12, 226, 182, 3>>, <<154, 210, 177, 116>>,
      <<57, 71, 213, 234>>, <<175, 119, 210, 157>>, <<21, 38, 219, 4>>, <<131, 22, 220, 115>>,
      <<18, 11, 99, 227>>, <<132, 59, 100, 148>>, <<62, 106, 109, 13>>, <<168, 90, 106, 122>>,
      <<11, 207, 14, 228>>, <<157, 255, 9, 147>>, <<39, 174, 0, 10>>, <<177, 158, 7, 125>>,
      <<68, 147, 15, 240>>, <<210, 163, 8, 135>>, <<104, 242, 1, 30>>, <<254, 194, 6, 105>>,
      <<93, 87, 98, 247>>, <<203, 103, 101, 128>>, <<113, 54, 108, 25>>, <<231, 6, 107, 110>>,
      <<118, 27, 212, 254>>, <<224, 43, 211, 137>>, <<90, 122, 218, 16>>, <<204, 74, 221, 103>>,
      <<111, 223, 185, 249>>, <<249, 239, 190, 142>>, <<67, 190, 183, 23>>, <<213, 142, 176, 96>>,
      <<232, 163, 214, 214>>, <<126, 147, 209, 161>>, <<196, 194, 216, 56>>, <<82, 242, 223, 79>>,
      <<241, 103, 187, 209>>, <<103, 87, 188, 166>>, <<221, 6, 181, 63>>, <<75, 54, 178, 72>>,
      <<218, 43, 13, 216>>, <<76, 27, 10, 175>>, <<246, 74, 3, 54>>, <<96, 122, 4, 65>>,
      <<195, 239, 96, 223>>, <<85, 223, 103, 168>>, <<239, 142, 110, 49>>, <<121, 190, 105, 70>>,
      <<140, 179, 97, 203>>, <<26, 131, 102, 188>>, <<160, 210, 111, 37>>, <<54, 226, 104, 82>>,
      <<149, 119, 12, 204>>, <<3, 71, 11, 187>>, <<185, 22, 2, 34>>, <<47, 38, 5, 85>>,
      <<190, 59, 186, 197>>, <<40, 11, 189, 178>>, <<146, 90, 180, 43>>, <<4, 106, 179, 92>>,
      <<167, 255, 215, 194>>, <<49, 207, 208, 181>>, <<139, 158, 217, 44>>, <<29, 174, 222, 91>>,
      <<176, 194, 100, 155>>, <<38, 242, 99, 236>>, <<156, 163, 106, 117>>, <<10, 147, 109, 2>>,
      <<169, 6, 9, 156>>, <<63, 54, 14, 235>>, <<133, 103, 7, 114>>, <<19, 87, 0, 5>>,
      <<130, 74, 191, 149>>, <<20, 122, 184, 226>>, <<174, 43, 177, 123>>, <<56, 27, 182, 12>>,
      <<155, 142, 210, 146>>, <<13, 190, 213, 229>>, <<183, 239, 220, 124>>, <<33, 223, 219, 11>>,
      <<212, 210, 211, 134>>, <<66, 226, 212, 241>>, <<248, 179, 221, 104>>, <<110, 131, 218, 31>>,
      <<205, 22, 190, 129>>, <<91, 38, 185, 246>>, <<225, 119, 176, 111>>, <<119, 71, 183, 24>>,
      <<230, 90, 8, 136>>, <<112, 106, 15, 255>>, <<202, 59, 6, 102>>, <<92, 11, 1, 17>>,
      <<255, 158, 101, 143>>, <<105, 174, 98, 248>>, <<211, 255, 107, 97>>, <<69, 207, 108, 22>>,
      <<120, 226, 10, 160>>, <<238, 210, 13, 215>>, <<84, 131, 4, 78>>, <<194, 179, 3, 57>>,
      <<97, 38, 103, 167>>, <<247, 22, 96, 208>>, <<77, 71, 105, 73>>, <<219, 119, 110, 62>>,
      <<74, 106, 209, 174>>, <<220, 90, 214, 217>>, <<102, 11, 223, 64>>, <<240, 59, 216, 55>>,
      <<83, 174, 188, 169>>, <<197, 158, 187, 222>>, <<127, 207, 178, 71>>, <<233, 255, 181, 48>>,
      <<28, 242, 189, 189>>, <<138, 194, 186, 202>>, <<48, 147, 179, 83>>, <<166, 163, 180, 36>>,
      <<5, 54, 208, 186>>, <<147, 6, 215, 205>>, <<41, 87, 222, 84>>, <<191, 103, 217, 35>>,
      <<46, 122, 102, 179>>, <<184, 74, 97, 196>>, <<2, 27, 104, 93>>, <<148, 43, 111, 42>>,
      <<55, 190, 11, 180>>, <<161, 142, 12, 195>>, <<27, 223, 5, 90>>, <<141, 239, 2, 45>>
    >>

\* one byte of zlib.crc32's loop: c = table[(c ^ b) & 0xFF] ^ (c >> 8)
CrcByte(c, b) == Xor32(CrcTable[Xor8(c[1], b) + 1], Shr8(c))

\* the loop over data[lo..hi]: the first half, then (once that value is there)
\* the second half
RECURSIVE CrcUpdate(_, _, _, _)
CrcUpdate(c, data, lo, hi) ==
    IF lo > hi THEN c
    ELSE IF lo = hi THEN CrcByte(c, data[lo])
    ELSE LET mid  == (lo + hi) \div 2
             left == CrcUpdate(c, data, lo, mid)
         IN  IF Len(left) = 4 THEN CrcUpdate(left, data, mid + 1, hi) ELSE left

\* zlib.crc32(data): start from 0xFFFFFFFF, invert the result
crc32(data) ==
    LET c == CrcUpdate(<<255, 255, 255, 255>>, data, 1, Len(data))
    IN  <<255 - c[1], 255 - c[2], 255 - c[3], 255 - c[4]>>

(***************************************************************************)
(* Stream primitives.                                                      *)
(***************************************************************************)
Min(a, b) == IF a < b THEN a ELSE b
Max(a, b) == IF a > b THEN a ELSE b

\* stream.read(n) at position pos: the bytes read (short at the end of the stream)
Read(bytes, pos, n) ==
    IF pos >= Len(bytes) \/ n <= 0 THEN <<>>
    ELSE SubSeq(bytes, pos + 1, Min(pos + n, Len(bytes)))

\* int.from_bytes(stream.read(4), byteorder='little') at position pos, as its bytes
Word(bytes, pos) == Read(bytes, pos, 4)

Magic == <<66, 80, 83, 49>>    \* b'BPS1'

(***************************************************************************)
(* decode_number.  The result is [ok, value, pos]: pos is the stream       *)
(* position afterwards.  When the bound check fails the stream has just    *)
(* been moved to its end by seek(0, 2) and the ValueError leaves it there. *)
(***************************************************************************)
\* if pos > end - 12
DecodeGuard(pos, end) == pos > end - 12

\* a variant that reads plain positional base 128, without data += shift
RECURSIVE DecodeLoopPlain(_, _, _, _)
DecodeLoopPlain(bytes, pos, data, shift) ==
    IF DecodeGuard(pos, Len(bytes))
    THEN [ok |-> FALSE, value |-> 0, pos |-> Len(bytes)]
    ELSE LET x == bytes[pos + 1]
             d == data + (x % 128) * shift
         IN  IF x >= 128
             THEN [ok |-> TRUE, value |-> d, pos |-> pos + 1]
             ELSE DecodeLoopPlain(bytes, pos + 1, d, shift * 128)

RECURSIVE DecodeLoop(_, _, _, _)
DecodeLoop(bytes, pos, data, shift) ==
    IF DecodeGuard(pos, Len(bytes))
    THEN [ok |-> FALSE, value |-> 0, pos |-> Len(bytes)]
    ELSE LET x == bytes[pos + 1]
             d == data + (x % 128) * shift
         IN  IF x >= 128
             THEN [ok |-> TRUE, value |-> d, pos |-> pos + 1]
             ELSE DecodeLoop(bytes, pos + 1, d + shift * 128, shift * 128)

decode_number(bytes, pos) == DecodeLoop(bytes, pos, 0, 1)

\* the index of the last byte decode_number reads (line 22) when called at
\* pos, whether it returns or raises; pos - 1 when it reads none
RECURSIVE LastRead(_, _)
LastRead(bytes, pos) ==
    IF DecodeGuard(pos, Len(bytes)) THEN pos - 1
    ELSE IF bytes[pos + 1] >= 128 THEN pos
    ELSE LastRead(bytes, pos + 1)

\* (-1 if (copy_data & 1) else 1) * (copy_data >> 1)
RelativeOffset(copy_data) ==
    (IF copy_data % 2 = 1 THEN -1 ELSE 1) * (copy_data \div 2)

(***************************************************************************)
(* validate_patch up to the command loop (lines 65-106).  The result is    *)
(* [err, pos, source_size, target_size, metadata_size]; err = "ok" means   *)
(* the command loop is entered at pos.  calculated_checksum is the value   *)
(* line 74 computes from the bytes.                                        *)
(***************************************************************************)
HeaderFail(e, p) ==
    [err |-> e, pos |-> p, source_size |-> 0, target_size |-> 0, metadata_size |-> 0]

MinPatchLength == 19

\* Variants of single checks are defined next to the checks they vary; the
\* properties at the end of the module are each tested against one of them.
TooShortByOne(patch_end) == patch_end < MinPatchLength - 1

\* if patch_end < 19
TooShort(patch_end) == patch_end < MinPatchLength

\* a variant that compares the low three bytes only
ChecksumMismatchLow(calculated_checksum, checksum) ==
    SubSeq(calculated_checksum, 1, 3) # SubSeq(checksum, 1, 3)

\* if calculated_checksum != checksum
ChecksumMismatch(calculated_checksum, checksum) == calculated_checksum # checksum

\* a variant that checks the length before the marker
ValidateHeaderLengthFirst(bytes, start, calculated_checksum) ==
    LET patch_end == Len(bytes)
        marker    == Read(bytes, start, 4)
    IN
    IF TooShort(patch_end) THEN HeaderFail("TooShort", patch_end)
    ELSE IF marker # Magic THEN HeaderFail("FormatMarker", start + Len(marker))
    ELSE IF ChecksumMismatch(calculated_checksum, Word(bytes, patch_end - 4))
         THEN HeaderFail("Checksum", patch_end)
    ELSE LET s == decode_number(bytes, 4) IN
         IF ~s.ok THEN HeaderFail("DecodeSourceSize", s.pos)
    ELSE LET t == decode_number(bytes, s.pos) IN
         IF ~t.ok THEN HeaderFail("DecodeTargetSize", t.pos)
    ELSE LET m == decode_number(bytes, t.pos) IN
         IF ~m.ok THEN HeaderFail("DecodeMetadataSize", m.pos)
    ELSE IF m.value + m.pos > patch_end - 12
         THEN HeaderFail("MetadataTooLarge", m.pos)
    ELSE [err |-> "ok", pos |-> m.pos + m.value, source_size |-> s.value,
          target_size |-> t.value, metadata_size |-> m.value]

ValidateHeaderFrom(bytes, start, calculated_checksum) ==
    LET patch_end == Len(bytes)
        marker    == Read(bytes, start, 4)
    IN
    IF marker # Magic THEN HeaderFail("FormatMarker", start + Len(marker))
    ELSE IF TooShort(patch_end) THEN HeaderFail("TooShort", patch_end)
    ELSE IF ChecksumMismatch(calculated_checksum, Word(bytes, patch_end - 4))
         THEN HeaderFail("Checksum", patch_end)
    ELSE LET s == decode_number(bytes, 4) IN
         IF ~s.ok THEN HeaderFail("DecodeSourceSize", s.pos)
    ELSE LET t == decode_number(bytes, s.pos) IN
         IF ~t.ok THEN HeaderFail("DecodeTargetSize", t.pos)
    ELSE LET m == decode_number(bytes, t.pos) IN
         IF ~m.ok THEN HeaderFail("DecodeMetadataSize", m.pos)
    ELSE IF m.value + m.pos > patch_end - 12
         THEN HeaderFail("MetadataTooLarge", m.pos)
    ELSE [err |-> "ok", pos |-> m.pos + m.value, source_size |-> s.value,
          target_size |-> t.value, metadata_size |-> m.value]

\* a variant without the seek(0): the marker is read where the stream stands
ValidateHeaderHere(bytes, pos, calculated_checksum) ==
    ValidateHeaderFrom(bytes, pos, calculated_checksum)

\* validate_patch begins with bps_patch.seek(0), whatever the position was
ValidateHeader(bytes, pos, calculated_checksum) ==
    ValidateHeaderFrom(bytes, 0, calculated_checksum)

\* zlib.crc32(bps_patch.read(patch_end - 4)) after bps_patch.seek(0) (lines 73-74)
PatchChecksum(bytes) == crc32(Read(bytes, 0, Len(bytes) - 4))

\* the index of the last byte the decode_number calls of lines 82-94 read
\* (-1 when validate_patch raises before them)
HeaderLastRead(bytes, h) ==
    IF h.err \in {"FormatMarker", "TooShort", "Checksum"} THEN -1
    ELSE LET s == decode_number(bytes, 4) IN
         IF ~s.ok THEN LastRead(bytes, 4)
    ELSE LET t == decode_number(bytes, s.pos) IN
         IF ~t.ok THEN LastRead(bytes, s.pos)
    ELSE LastRead(bytes, t.pos)

\* the index of the last byte the decode_number calls of one loop iteration
\* read (lines 110, 133, 146)
CommandLastRead(bytes, pos) ==
    LET n == decode_number(bytes, pos)
    IN  IF n.ok /\ n.value % 4 >= 2 THEN LastRead(bytes, n.pos) ELSE LastRead(bytes, pos)

(***************************************************************************)
(* One iteration of validate_patch's command loop (lines 109-157), from    *)
(* stream position pos with the locals f.  The result is [err, pos, f,     *)
(* details]: f holds the locals as the iteration leaves them (at the raise *)
(* when err # "ok"), details is what error_details is built from         *)
(* (relative is <<SRO>> or <<TRO>> once it has been appended).             *)
(***************************************************************************)
\* a variant that rejects a command ending exactly at target_size
TargetEndStrict(tp, target_size) == tp >= target_size

SourceReadEnd(tp, source_size)  == tp > source_size
TargetEnd(tp, target_size)      == tp > target_size
LiteralEnd(pos, patch_end)      == pos > patch_end - 12
SourceBegin(start)              == start < 0
SourceEnd(sp, source_size)      == sp > source_size
OutreadBegin(orp)               == orp < 0
\* a variant that lets a TargetCopy start at target_position
OutreadEndLoose(orp, tp)        == orp > tp
OutreadEnd(orp, tp)             == orp >= tp

ValidateCommandAt(bytes, pos, f) ==
    LET n == decode_number(bytes, pos) IN
    IF ~n.ok
    THEN [err |-> "InvalidNumber", pos |-> n.pos, f |-> f,
          details |-> [offset |-> pos, command |-> -1, length |-> 0,
                       source_position |-> f.source_position,
                       target_position |-> f.target_position, relative |-> <<>>]]
    ELSE
    LET command == n.value % 4
        length  == (n.value \div 4) + 1
        det == [offset |-> pos, command |-> command, length |-> length,
                source_position |-> f.source_position,
                target_position |-> f.target_position, relative |-> <<>>]
        tp  == f.target_position + length
        ft  == [f EXCEPT !.target_position = tp]
    IN
    CASE command = 0 ->
           IF SourceReadEnd(tp, f.source_size)
           THEN [err |-> "ReadBeyondEndOfSource", pos |-> n.pos, f |-> ft, details |-> det]
           ELSE IF TargetEnd(tp, f.target_size)
           THEN [err |-> "WriteBeyondEndOfTarget", pos |-> n.pos, f |-> ft, details |-> det]
           ELSE [err |-> "ok", pos |-> n.pos, f |-> ft, details |-> det]
      [] command = 1 ->
           IF TargetEnd(tp, f.target_size)
           THEN [err |-> "WriteBeyondEndOfTarget", pos |-> n.pos, f |-> ft, details |-> det]
           ELSE IF LiteralEnd(n.pos + length, f.patch_end)
           THEN [err |-> "TargetReadTooLarge", pos |-> n.pos + length, f |-> ft, details |-> det]
           ELSE [err |-> "ok", pos |-> n.pos + length, f |-> ft, details |-> det]
      [] command = 2 ->
           LET c == decode_number(bytes, n.pos) IN
           IF ~c.ok
           THEN [err |-> "InvalidNumber", pos |-> c.pos, f |-> f, details |-> det]
           ELSE
           LET off  == RelativeOffset(c.value)
               detr == [det EXCEPT !.relative = <<off>>]
               sp   == f.source_position + off + length
               fs   == [f EXCEPT !.source_position = sp]
               fst  == [fs EXCEPT !.target_position = tp]
           IN  IF SourceBegin(f.source_position + off)
               THEN [err |-> "ReadBeyondBeginningOfSource", pos |-> c.pos, f |-> f, details |-> detr]
               ELSE IF SourceEnd(sp, f.source_size)
               THEN [err |-> "ReadBeyondEndOfSource", pos |-> c.pos, f |-> fs, details |-> detr]
               ELSE IF TargetEnd(tp, f.target_size)
               THEN [err |-> "WriteBeyondEndOfTarget", pos |-> c.pos, f |-> fst, details |-> detr]
               ELSE [err |-> "ok", pos |-> c.pos, f |-> fst, details |-> detr]
      [] OTHER ->
           LET c == decode_number(bytes, n.pos) IN
           IF ~c.ok
           THEN [err |-> "InvalidNumber", pos |-> c.pos, f |-> f, details |-> det]
           ELSE
           LET off  == RelativeOffset(c.value)
               detr == [det EXCEPT !.relative = <<off>>]
               orp  == f.outread_position + off
               fo   == [f EXCEPT !.outread_position = orp]
               fot  == [fo EXCEPT !.target_position = tp]
           IN  IF OutreadBegin(orp)
               THEN [err |-> "ReadBeyondBeginningOfTarget", pos |-> c.pos, f |-> fo, details |-> detr]
               ELSE IF OutreadEnd(orp, f.target_position)
               THEN [err |-> "ReadBeyondEndOfTarget", pos |-> c.pos, f |-> fo, details |-> detr]
               ELSE IF TargetEnd(tp, f.target_size)
               THEN [err |-> "WriteBeyondEndOfTarget", pos |-> c.pos, f |-> fot, details |-> detr]
               ELSE [err |-> "ok", pos |-> c.pos,
                     f |-> [fot EXCEPT !.outread_position = orp + length],
                     details |-> detr]

(***************************************************************************)
(* patch(): the chunked copy loops.                                        *)
(***************************************************************************)
ChunkSize == 256    \* 2**8

\* to_go = length; while to_go > 0: output.write(stream.read(min(to_go, 2**8))); to_go -= 2**8
\* The result is [pos, out]: the stream's position and the output afterwards.
\* a variant that leaves the stream where it was before the copy
CopyChunksRewind(bytes, pos, to_go, out) ==
    [pos |-> pos, out |-> out \o Read(bytes, pos, to_go)]

RECURSIVE CopyChunks(_, _, _, _)
CopyChunks(bytes, pos, to_go, out) ==
    IF to_go <= 0 THEN [pos |-> pos, out |-> out]
    ELSE LET seg == Read(bytes, pos, Min(to_go, ChunkSize))
         IN  CopyChunks(bytes, pos + Len(seg), to_go - ChunkSize, out \o seg)

\* stream.seek(offset, 1) on a BytesIO: a position before the start is clamped to 0
SeekRelative(pos, offset) == Max(0, pos + offset)

\* a variant that always copies a full chunk, whatever the gap
CopyStepFixed(out, orp) == ChunkSize

\* step = min(output.tell() - outread_position, 2**8)
CopyStep(out, orp) == Min(Len(out) - orp, ChunkSize)

\* output.seek(outread_position); segment = output.read(min(to_go, step)):
\* a negative size reads to the end of the stream
CopySegment(out, orp, to_go, step) ==
    LET k == Min(to_go, step)
    IN  IF k < 0 THEN Read(out, orp, Len(out)) ELSE Read(out, orp, k)

(***************************************************************************)
(* The byte-by-byte meaning of a command stream, used to state what        *)
(* patch() must produce and to give generated patches their target         *)
(* checksum.  The result is [defined, out]; defined is FALSE as soon as a  *)
(* command reads a byte that does not exist.                               *)
(***************************************************************************)
\* append out[orp], out[orp + 1], ... one byte at a time, n bytes in all
\* (the first half of them, then the rest)
RECURSIVE RefTargetCopy(_, _, _)
RefTargetCopy(out, orp, n) ==
    IF n = 0 THEN [defined |-> TRUE, out |-> out]
    ELSE IF n = 1
    THEN IF orp < 0 \/ orp >= Len(out) THEN [defined |-> FALSE, out |-> out]
         ELSE [defined |-> TRUE, out |-> Append(out, out[orp + 1])]
    ELSE LET r == RefTargetCopy(out, orp, n \div 2)
         IN  IF r.defined THEN RefTargetCopy(r.out, orp + (n \div 2), n - (n \div 2)) ELSE r

\* append from[at], ..., from[at + n - 1]
RefTake(out, from, at, n) ==
    IF at < 0 \/ at + n > Len(from) THEN [defined |-> FALSE, out |-> out]
    ELSE [defined |-> TRUE, out |-> out \o SubSeq(from, at + 1, at + n)]

RECURSIVE RefCommands(_, _, _, _, _, _)
RefCommands(bytes, src, pos, out, sp, orp) ==
    IF ~(pos < Len(bytes) - 12) THEN [defined |-> TRUE, out |-> out]
    ELSE
    LET n == decode_number(bytes, pos) IN
    IF ~n.ok THEN [defined |-> FALSE, out |-> out]
    ELSE
    LET command == n.value % 4
        length  == (n.value \div 4) + 1
    IN
    CASE command = 0 ->
           LET r == RefTake(out, src, Len(out), length)
           IN  IF r.defined THEN RefCommands(bytes, src, n.pos, r.out, sp, orp) ELSE r
      [] command = 1 ->
           LET r == RefTake(out, SubSeq(bytes, 1, Len(bytes) - 12), n.pos, length)
           IN  IF r.defined THEN RefCommands(bytes, src, n.pos + length, r.out, sp, orp) ELSE r
      [] OTHER ->
           LET c == decode_number(bytes, n.pos) IN
           IF ~c.ok THEN [defined |-> FALSE, out |-> out]
           ELSE
           LET off == RelativeOffset(c.value) IN
           IF command = 2
           THEN LET r == RefTake(out, src, sp + off, length)
                IN  IF r.defined
                    THEN RefCommands(bytes, src, c.pos, r.out, sp + off + length, orp)
                    ELSE r
           ELSE LET r == RefTargetCopy(out, orp + off, length)
                IN  IF r.defined
                    THEN RefCommands(bytes, src, c.pos, r.out, sp, orp + off + length)
                    ELSE r

RefApply(bytes, src) ==
    LET s == decode_number(bytes, 4)
        t == decode_number(bytes, s.pos)
        m == decode_number(bytes, t.pos)
    IN  IF s.ok /\ t.ok /\ m.ok
        THEN RefCommands(bytes, src, m.pos + m.value, <<>>, 0, 0)
        ELSE [defined |-> FALSE, out |-> <<>>]

(***************************************************************************)
(* Inputs: the sources and patches the operations are called with.         *)
(* Patches are produced the way a patch generator lays them out (magic,    *)
(* three numbers, metadata, commands, three checksums), with header sizes, *)
(* stored checksums and commands varied so that they are right, off by     *)
(* one, or inconsistent with each other.                                   *)
(***************************************************************************)
MaxSourceSize == 1
MaxSpin == 1

SourceOfLen(n) == [i \in 1..n |-> (16 + i) % 256]

Sources == {SourceOfLen(n) : n \in 0..MaxSourceSize}

\* the inverse of decode_number
RECURSIVE EncodeNumber(_)
EncodeNumber(n) ==
    IF n \div 128 = 0 THEN <<128 + (n % 128)>>
    ELSE <<n % 128>> \o EncodeNumber((n \div 128) - 1)

EncodeOffset(off) == EncodeNumber(IF off < 0 THEN 2 * (-off) + 1 ELSE 2 * off)

SourceRead(length)       == EncodeNumber((length - 1) * 4)
TargetRead(literal)      == EncodeNumber((Len(literal) - 1) * 4 + 1) \o literal
\* a TargetRead that announces one byte more than the literal that follows it
TargetReadCut(literal)   == EncodeNumber(Len(literal) * 4 + 1) \o literal
SourceCopy(length, off)  == EncodeNumber((length - 1) * 4 + 2) \o EncodeOffset(off)
TargetCopy(length, off)  == EncodeNumber((length - 1) * 4 + 3) \o EncodeOffset(off)

\* the number of target bytes a command writes (for the header sizes tried with it)
Commands ==
    { [bytes |-> SourceRead(1), length |-> 1],
      [bytes |-> TargetRead(<<65>>), length |-> 1],
      [bytes |-> TargetRead(<<65, 66>>), length |-> 2],
      [bytes |-> TargetReadCut(<<65>>), length |-> 2],
      [bytes |-> SourceCopy(1, 0), length |-> 1],
      [bytes |-> SourceCopy(1, -1), length |-> 1],
      [bytes |-> SourceCopy(1, 1), length |-> 1],
      [bytes |-> TargetCopy(1, 0), length |-> 1],
      [bytes |-> TargetCopy(3, 0), length |-> 3],
      [bytes |-> TargetCopy(1, -1), length |-> 1],
      [bytes |-> TargetCopy(1, 1), length |-> 1] }

Programs ==
    {<<>>} \cup {<<c>> : c \in Commands} \cup {<<c, d>> : c, d \in Commands}

RECURSIVE ProgramBytes(_)
ProgramBytes(p) == IF p = <<>> THEN <<>> ELSE Head(p).bytes \o ProgramBytes(Tail(p))

RECURSIVE ProgramLength(_)
ProgramLength(p) == IF p = <<>> THEN 0 ELSE Head(p).length + ProgramLength(Tail(p))

Zero32 == <<0, 0, 0, 0>>

\* magic + numbers + metadata + commands, the source checksum of the source the
\* patch is built for, the target checksum (that of the target the commands
\* produce from that source when good, a blank one otherwise), the patch checksum
BuildPatch(source_size, target_size, metadata, body, built_for, good) ==
    LET head == Magic \o EncodeNumber(source_size) \o EncodeNumber(target_size)
                  \o EncodeNumber(Len(metadata)) \o metadata \o body
        ssum == crc32(built_for)
        ref  == RefApply(head \o ssum \o Zero32 \o Zero32, built_for)
        tsum == IF good /\ ref.defined THEN crc32(ref.out) ELSE Zero32
        pre  == head \o ssum \o tsum
    IN  pre \o crc32(pre)

\* every program with each declared source size and a target size that is the
\* bytes it writes, or one off; a patch with the right target size is also tried
\* built for each source and with a blank target checksum
PatchesOf(p) ==
    { BuildPatch(ss, ProgramLength(p), <<>>, ProgramBytes(p), SourceOfLen(bf), good) :
        ss \in 0..MaxSourceSize, bf \in 0..MaxSourceSize, good \in BOOLEAN }
    \cup
    { BuildPatch(ss, ProgramLength(p) + dt, <<>>, ProgramBytes(p), SourceOfLen(ss), TRUE) :
        ss \in 0..MaxSourceSize, dt \in {d \in {-1, 1} : ProgramLength(p) + d >= 0} }

SmallPatches == UNION {PatchesOf(p) : p \in Programs}

\* a patch whose output grows past ChunkSize bytes: two literal bytes doubled
\* seven times, then copies from the start with more than ChunkSize bytes
\* between the read and the write position, the last one longer than that gap
LongProgram ==
    TargetRead(<<65, 66>>) \o TargetCopy(2, 0) \o TargetCopy(4, -2) \o TargetCopy(8, -4)
      \o TargetCopy(16, -8) \o TargetCopy(32, -16) \o TargetCopy(64, -32)
      \o TargetCopy(128, -64) \o TargetCopy(5, -128) \o TargetCopy(270, -5)

LongPatches == {BuildPatch(0, 531, <<>>, LongProgram, <<>>, TRUE)}

\* a patch with the stored source and target checksums given as bytes
BuildPatchFor(source_size, target_size, metadata, body, ssum, tsum) ==
    LET pre == Magic \o EncodeNumber(source_size) \o EncodeNumber(target_size)
                 \o EncodeNumber(Len(metadata)) \o metadata \o body \o ssum \o tsum
    IN  pre \o crc32(pre)

\* patches whose command stream ends in the middle of a number, before a
\* stored source checksum whose first byte has the high bit set: a SourceCopy
\* and a TargetCopy of length 1 without their offset, after one literal byte
UnfinishedPatches ==
    { BuildPatchFor(1, 2, <<>>, TargetRead(<<65>>) \o <<130>>, <<128, 0, 0, 0>>, Zero32),
      BuildPatchFor(0, 2, <<>>, TargetRead(<<65>>) \o <<131>>, <<128, 0, 0, 0>>, Zero32) }

\* patches that carry metadata between the header numbers and the commands
MetadataPatches ==
    { BuildPatch(0, 0, <<77>>, <<>>, <<>>, TRUE),
      BuildPatch(1, 2, <<77, 78>>, SourceRead(1) \o TargetRead(<<65>>), SourceOfLen(1), TRUE) }

\* streams that fail one or several of the checks made before the command
\* loop: another marker, a stored patch checksum that is off by one bit, header
\* numbers that never end, a metadata size larger than what follows; with
\* header sizes and commands that are right or wrong as well
RawPatch(marker, rest, sum_ok) ==
    LET pre == marker \o rest \o Zero32 \o Zero32
        c   == crc32(pre)
    IN  pre \o (IF sum_ok THEN c ELSE [c EXCEPT ![1] = Xor8(@, 1)])

HeaderCases ==
    { <<0, 0, 0>>, <<128, 0, 0>>, <<128, 128, 0>>, <<128, 128, 129>>, <<128, 129, 129>>,
      <<128, 129, 128>> \o SourceRead(1), <<128, 129, 128>>, <<128, 128, 128>> }

BrokenPatches ==
    { RawPatch(marker, rest, sum_ok) :
        marker \in {Magic, <<66, 80, 83, 50>>}, rest \in HeaderCases, sum_ok \in BOOLEAN }

Patches ==
    SmallPatches \cup LongPatches \cup MetadataPatches \cup UnfinishedPatches \cup BrokenPatches

(***************************************************************************)
(* The state: the two streams the caller holds, the call in progress with  *)
(* its locals, and what the last call returned or raised.                  *)
(***************************************************************************)
VARIABLES
    patch_bytes, patch_pos,     \* bps_patch: its bytes and bps_patch.tell()
    patch_crc,                  \* PatchChecksum(patch_bytes), kept with the bytes
    source_bytes, source_pos,   \* source: its bytes and source.tell()
    output,                     \* patch()'s output buffer (written at its end)
    pc,                         \* "idle", "validate" (validate_patch's command loop),
                                \* "apply" (patch()'s command loop), "target_copy"
    op,                         \* the operation called: validate_patch, patch_info, patch
    vframe,                     \* validate_patch's locals
    pframe,                     \* patch()'s locals
    result,                     \* the last call's outcome
    first_outcome,              \* outcome of the first validate_patch call on these bytes
    pos_before,                 \* bps_patch.tell() when the call was made
    edit,                       \* what the caller did to the bytes: none, flip, truncate
    last_cmd,                   \* the last iteration of validate_patch's command loop
    decoded_to                  \* highest index decode_number has read in the last
                                \* validate_patch run (-1: none)

vars == <<patch_bytes, patch_pos, patch_crc, source_bytes, source_pos, output, pc, op, vframe,
          pframe, result, first_outcome, pos_before, edit, last_cmd, decoded_to>>

NoVFrame ==
    [source_size |-> 0, target_size |-> 0, patch_end |-> 0, source_position |-> 0,
     target_position |-> 0, outread_position |-> 0]

\* copy_start, copy_base and copy_length record the TargetCopy being executed:
\* outread_position after the offset, the bytes written before it, its length
\* (copy_length is 0 when the last command was not a TargetCopy)
NoPFrame ==
    [outread_position |-> 0, to_go |-> 0, commands |-> 0, spins |-> 0,
     copy_start |-> 0, copy_base |-> 0, copy_length |-> 0]

NoDetails ==
    [offset |-> 0, command |-> -1, length |-> 0, source_position |-> 0,
     target_position |-> 0, relative |-> <<>>]

NoInfo ==
    [source_size |-> 0, target_size |-> 0, metadata |-> <<>>,
     source_checksum |-> Zero32, final_checksum |-> Zero32]

NoCmd ==
    [seen |-> FALSE, err |-> "ok", before |-> NoVFrame, after |-> NoVFrame,
     details |-> NoDetails, pos |-> 0]

Outcome(o, e, d, i) == [op |-> o, outcome |-> e, details |-> d, info |-> i]

Init ==
    /\ patch_bytes \in Patches
    /\ patch_crc = PatchChecksum(patch_bytes)
    /\ patch_pos = 0
    /\ source_bytes = <<>>
    /\ source_pos = 0
    /\ output = <<>>
    /\ pc = "idle"
    /\ op = "none"
    /\ vframe = NoVFrame
    /\ pframe = NoPFrame
    /\ result = Outcome("none", "none", NoDetails, NoInfo)
    /\ first_outcome = "none"
    /\ pos_before = 0
    /\ edit = "none"
    /\ last_cmd = NoCmd
    /\ decoded_to = -1

\* a call ends by raising ValueError(e) (or returning, e = "ok") with the stream at pos
Finish(o, e, d, i, pos) ==
    /\ pc' = "idle"
    /\ result' = Outcome(o, e, d, i)
    /\ patch_pos' = pos
    /\ first_outcome' = IF o = "validate_patch" /\ first_outcome = "none"
                        THEN e ELSE first_outcome

(***************************************************************************)
(* validate_patch, called directly or by patch_info and patch (lines 44    *)
(* and 169).  Enter is lines 65-106.                                       *)
(***************************************************************************)
\* validate_patch's locals when the command loop is entered (lines 104-106)
EnterFrame(h, patch_end) ==
    [source_size |-> h.source_size, target_size |-> h.target_size,
     patch_end |-> patch_end, source_position |-> 0,
     target_position |-> 0, outread_position |-> 0]

Enter(o) ==
    LET h == ValidateHeader(patch_bytes, patch_pos, patch_crc) IN
    /\ pc = "idle"
    /\ op' = o
    /\ pos_before' = patch_pos
    /\ output' = <<>>
    /\ pframe' = NoPFrame
    /\ last_cmd' = NoCmd
    /\ decoded_to' = HeaderLastRead(patch_bytes, h)
    /\ IF h.err = "ok"
       THEN /\ pc' = "validate"
            /\ patch_pos' = h.pos
            /\ vframe' = EnterFrame(h, Len(patch_bytes))
            /\ result' = Outcome(o, "running", NoDetails, NoInfo)
            /\ UNCHANGED first_outcome
       ELSE /\ vframe' = NoVFrame
            /\ Finish(o, h.err, NoDetails, NoInfo, h.pos)

\* source_bytes is the source patch() is called with (empty in the other calls)
CallValidatePatch ==
    /\ Enter("validate_patch")
    /\ source_bytes' = <<>>
    /\ source_pos' = 0
    /\ UNCHANGED <<patch_bytes, patch_crc, edit>>

CallPatchInfo ==
    /\ Enter("patch_info")
    /\ source_bytes' = <<>>
    /\ source_pos' = 0
    /\ UNCHANGED <<patch_bytes, patch_crc, edit>>

CallPatch ==
    /\ Enter("patch")
    /\ \E s \in Sources : source_bytes' = s
    /\ source_pos' = 0
    /\ UNCHANGED <<patch_bytes, patch_crc, edit>>

LoopCondition(pos, patch_end) == pos < patch_end - 12

ValidateCommand ==
    /\ pc = "validate"
    /\ LoopCondition(patch_pos, vframe.patch_end)
    /\ LET r == ValidateCommandAt(patch_bytes, patch_pos, vframe) IN
       /\ last_cmd' = [seen |-> TRUE, err |-> r.err, before |-> vframe, after |-> r.f,
                       details |-> r.details, pos |-> r.pos]
       /\ vframe' = r.f
       /\ decoded_to' = Max(decoded_to, CommandLastRead(patch_bytes, patch_pos))
       /\ IF r.err = "ok"
          THEN /\ patch_pos' = r.pos
               /\ UNCHANGED <<pc, result, first_outcome>>
          ELSE Finish(op, r.err, r.details, NoInfo, r.pos)
    /\ UNCHANGED <<patch_bytes, patch_crc, source_bytes, source_pos, output, op, pframe, pos_before,
                   edit>>

LoopDone == pc = "validate" /\ ~LoopCondition(patch_pos, vframe.patch_end)

\* a variant that lets a target shorter than target_size pass
FinalSizeAtMost(f) == f.target_position <= f.target_size

\* line 159, negated
FinalSizeOk(f) == f.target_position = f.target_size

\* validate_patch run to its end on a stream of these bytes: [err, details]
RECURSIVE ValidateLoop(_, _, _)
ValidateLoop(bytes, pos, f) ==
    IF ~LoopCondition(pos, f.patch_end)
    THEN [err |-> IF FinalSizeOk(f) THEN "ok" ELSE "FinalSize", details |-> NoDetails]
    ELSE LET r == ValidateCommandAt(bytes, pos, f)
         IN  IF r.err = "ok" THEN ValidateLoop(bytes, r.pos, r.f)
             ELSE [err |-> r.err, details |-> r.details]

\* validate_patch's stream position and locals once k commands are accepted
RECURSIVE ValidateSteps(_, _, _, _)
ValidateSteps(bytes, pos, f, k) ==
    IF k = 0 \/ ~LoopCondition(pos, f.patch_end) THEN [pos |-> pos, f |-> f]
    ELSE LET r == ValidateCommandAt(bytes, pos, f)
         IN  IF r.err = "ok" THEN ValidateSteps(bytes, r.pos, r.f, k - 1)
             ELSE [pos |-> pos, f |-> f]

ValidatorAfter(bytes, calculated_checksum, k) ==
    LET h == ValidateHeader(bytes, 0, calculated_checksum)
    IN  ValidateSteps(bytes, h.pos, EnterFrame(h, Len(bytes)), k)

validate_patch(bytes, calculated_checksum) ==
    LET h == ValidateHeader(bytes, 0, calculated_checksum)
    IN  IF h.err = "ok" THEN ValidateLoop(bytes, h.pos, EnterFrame(h, Len(bytes)))
        ELSE [err |-> h.err, details |-> NoDetails]

\* lines 159-160
ValidateFinalSize ==
    /\ LoopDone
    /\ ~FinalSizeOk(vframe)
    /\ Finish(op, "FinalSize", NoDetails, NoInfo, patch_pos)
    /\ UNCHANGED <<patch_bytes, patch_crc, decoded_to, source_bytes, source_pos, output, op, vframe, pframe,
                   pos_before, edit, last_cmd>>

ValidateReturn ==
    /\ LoopDone
    /\ FinalSizeOk(vframe)
    /\ op = "validate_patch"
    /\ Finish(op, "ok", NoDetails, NoInfo, patch_pos)
    /\ UNCHANGED <<patch_bytes, patch_crc, decoded_to, source_bytes, source_pos, output, op, vframe, pframe,
                   pos_before, edit, last_cmd>>

(***************************************************************************)
(* patch_info after its validate_patch call: lines 45-55.                  *)
(***************************************************************************)
\* a variant without the final bps_patch.seek(0)
ReadInfoNoRewind(bytes) ==
    LET s == decode_number(bytes, 4)
        t == decode_number(bytes, s.pos)
        m == decode_number(bytes, t.pos)
    IN  [ok |-> s.ok /\ t.ok /\ m.ok,
         info |-> [source_size |-> s.value, target_size |-> t.value,
                   metadata |-> Read(bytes, m.pos, m.value),
                   source_checksum |-> Word(bytes, Len(bytes) - 12),
                   final_checksum |-> Word(bytes, Len(bytes) - 8)],
         pos |-> Len(bytes) - 4]

ReadInfo(bytes) ==
    LET s == decode_number(bytes, 4)
        t == decode_number(bytes, s.pos)
        m == decode_number(bytes, t.pos)
    IN  [ok |-> s.ok /\ t.ok /\ m.ok,
         info |-> [source_size |-> s.value, target_size |-> t.value,
                   metadata |-> Read(bytes, m.pos, m.value),
                   source_checksum |-> Word(bytes, Len(bytes) - 12),
                   final_checksum |-> Word(bytes, Len(bytes) - 8)],
         pos |-> 0]

PatchInfoReturn ==
    /\ LoopDone
    /\ FinalSizeOk(vframe)
    /\ op = "patch_info"
    /\ LET r == ReadInfo(patch_bytes) IN
       IF r.ok THEN Finish(op, "ok", NoDetails, r.info, r.pos)
       ELSE Finish(op, "InvalidNumber", NoDetails, NoInfo, Len(patch_bytes))
    /\ UNCHANGED <<patch_bytes, patch_crc, decoded_to, source_bytes, source_pos, output, op, vframe, pframe,
                   pos_before, edit, last_cmd>>

(***************************************************************************)
(* patch() after its validate_patch call.  PatchPrepare is lines 171-188.  *)
(***************************************************************************)
\* a variant that compares with the stored target checksum instead
SourceMatchesTargetField(bytes, src) == crc32(src) = Word(bytes, Len(bytes) - 8)

\* lines 171-175: calculated_checksum == checksum, for the source
SourceMatches(bytes, src) == crc32(src) = Word(bytes, Len(bytes) - 12)

PatchPrepare ==
    /\ LoopDone
    /\ FinalSizeOk(vframe)
    /\ op = "patch"
    /\ IF ~SourceMatches(patch_bytes, source_bytes)
       THEN /\ Finish(op, "IncompatibleSource", NoDetails, NoInfo, Len(patch_bytes) - 8)
            /\ source_pos' = Len(source_bytes)
            /\ UNCHANGED pframe
       ELSE LET m == decode_number(patch_bytes,
                       decode_number(patch_bytes, decode_number(patch_bytes, 4).pos).pos)
            IN  /\ pc' = "apply"
                /\ patch_pos' = m.pos + m.value
                /\ source_pos' = 0
                /\ pframe' = NoPFrame
                /\ UNCHANGED <<result, first_outcome>>
    /\ output' = <<>>
    /\ UNCHANGED <<patch_bytes, patch_crc, decoded_to, source_bytes, op, vframe, pos_before, edit, last_cmd>>

\* lines 191-223: one command; a TargetCopy's copy loop is run by TargetCopyStep
ApplyCommand ==
    /\ pc = "apply"
    /\ LoopCondition(patch_pos, Len(patch_bytes))
    /\ LET n == decode_number(patch_bytes, patch_pos)
           command == n.value % 4
           length  == (n.value \div 4) + 1
           c   == decode_number(patch_bytes, n.pos)
           off == RelativeOffset(c.value)
           done == [pframe EXCEPT !.commands = @ + 1, !.copy_length = 0,
                                  !.copy_start = 0, !.copy_base = 0]
       IN
       IF ~n.ok \/ (command >= 2 /\ ~c.ok)
       THEN /\ Finish(op, "InvalidNumber", NoDetails, NoInfo, Len(patch_bytes))
            /\ UNCHANGED <<source_pos, output, pframe>>
       ELSE
       CASE command = 0 ->
              LET r == CopyChunks(source_bytes, Len(output), length, output) IN
              /\ output' = r.out
              /\ patch_pos' = n.pos
              /\ pframe' = done
              /\ UNCHANGED <<pc, source_pos, result, first_outcome>>
         [] command = 1 ->
              LET r == CopyChunks(patch_bytes, n.pos, length, output) IN
              /\ output' = r.out
              /\ patch_pos' = r.pos
              /\ pframe' = done
              /\ UNCHANGED <<pc, source_pos, result, first_outcome>>
         [] command = 2 ->
              LET r == CopyChunks(source_bytes, SeekRelative(source_pos, off), length, output) IN
              /\ output' = r.out
              /\ source_pos' = r.pos
              /\ patch_pos' = c.pos
              /\ pframe' = done
              /\ UNCHANGED <<pc, result, first_outcome>>
         [] OTHER ->
              /\ pc' = "target_copy"
              /\ patch_pos' = c.pos
              /\ pframe' = [pframe EXCEPT !.outread_position = @ + off,
                                          !.to_go = length, !.spins = 0,
                                          !.copy_start = pframe.outread_position + off,
                                          !.copy_base = Len(output),
                                          !.copy_length = length]
              /\ UNCHANGED <<source_pos, output, result, first_outcome>>
    /\ UNCHANGED <<patch_bytes, patch_crc, decoded_to, source_bytes, op, vframe, pos_before, edit, last_cmd>>

\* lines 225-232: one iteration of the copy loop.  output.seek of a negative
\* position raises ValueError.  An iteration with step <= 0 copies nothing and
\* leaves to_go as large as it was or larger: MaxSpin of them are followed.
TargetCopyStep ==
    /\ pc = "target_copy"
    /\ LET orp  == pframe.outread_position
           step == CopyStep(output, orp)
           seg  == CopySegment(output, orp, pframe.to_go, step)
           left == pframe.to_go - step
       IN
       /\ step >= 1 \/ pframe.spins < MaxSpin
       /\ IF orp < 0
          THEN /\ Finish(op, "NegativeSeek", NoDetails, NoInfo, patch_pos)
               /\ UNCHANGED <<output, pframe>>
          ELSE /\ output' = output \o seg
               /\ pframe' = [pframe EXCEPT !.outread_position = orp + Len(seg),
                                           !.to_go = left,
                                           !.spins = IF step >= 1 THEN 0 ELSE @ + 1,
                                           !.commands = IF left > 0 THEN @ ELSE @ + 1]
               /\ pc' = IF left > 0 THEN "target_copy" ELSE "apply"
               /\ UNCHANGED <<patch_pos, result, first_outcome>>
    /\ UNCHANGED <<patch_bytes, patch_crc, decoded_to, source_bytes, source_pos, op, vframe, pos_before, edit,
                   last_cmd>>

\* a variant that compares with the stored source checksum instead
OutputMatchesSourceField(bytes, out) == crc32(out) = Word(bytes, Len(bytes) - 12)

\* lines 234-238: calculated_checksum == checksum, for the output
OutputMatches(bytes, out) == crc32(out) = Word(bytes, Len(bytes) - 8)

\* lines 234-244
ApplyFinish ==
    /\ pc = "apply"
    /\ ~LoopCondition(patch_pos, Len(patch_bytes))
    /\ IF OutputMatches(patch_bytes, output)
       THEN Finish(op, "ok", NoDetails, NoInfo, Len(patch_bytes) - 4)
       ELSE Finish(op, "OutputChecksum", NoDetails, NoInfo, Len(patch_bytes) - 4)
    /\ UNCHANGED <<patch_bytes, patch_crc, decoded_to, source_bytes, source_pos, output, op, vframe, pframe,
                   pos_before, edit, last_cmd>>

(***************************************************************************)
(* The caller changes the stream between calls: one bit of the stored      *)
(* patch checksum flipped, or the stream cut short.                        *)
(***************************************************************************)
Accepted ==
    /\ pc = "idle"
    /\ edit = "none"
    /\ result.op = "validate_patch"
    /\ result.outcome = "ok"

\* the edited stream is a new input: nothing is known of it yet
Edited(kind) ==
    /\ edit' = kind
    /\ first_outcome' = "none"
    /\ pos_before' = patch_pos
    /\ op' = "none"
    /\ result' = Outcome("none", "none", NoDetails, NoInfo)
    /\ vframe' = NoVFrame
    /\ last_cmd' = NoCmd
    /\ decoded_to' = -1
    /\ UNCHANGED <<patch_pos, source_bytes, source_pos, output, pc, pframe>>

Pow2(k) == CASE k = 0 -> 1 [] k = 1 -> 2 [] k = 2 -> 4 [] k = 3 -> 8
             [] k = 4 -> 16 [] k = 5 -> 32 [] k = 6 -> 64 [] OTHER -> 128

FlipChecksumBit ==
    /\ Accepted
    /\ \E k \in 0..31 :
         LET at == Len(patch_bytes) - 4 + (k \div 8) + 1
         IN  patch_bytes' = [patch_bytes EXCEPT ![at] = Xor8(@, Pow2(k % 8))]
    /\ patch_crc' = PatchChecksum(patch_bytes')
    /\ Edited("flip")

Truncate ==
    /\ Accepted
    /\ \E n \in 0..(MinPatchLength - 1) : patch_bytes' = SubSeq(patch_bytes, 1, n)
    /\ patch_crc' = PatchChecksum(patch_bytes')
    /\ Edited("truncate")

Next ==
    \/ CallValidatePatch
    \/ CallPatchInfo
    \/ CallPatch
    \/ ValidateCommand
    \/ ValidateFinalSize
    \/ ValidateReturn
    \/ PatchInfoReturn
    \/ PatchPrepare
    \/ ApplyCommand
    \/ TargetCopyStep
    \/ ApplyFinish
    \/ FlipChecksumBit
    \/ Truncate

Spec == Init /\ [][Next]_vars

(***************************************************************************)
(* decode_number on its own: a stream that holds one number (bytes with the *)
(* high bit clear, then one with it set, or no such byte at all) before a   *)
(* 12-byte trailer, read from where the number starts.                      *)
(***************************************************************************)
MaxNumberLen == 3

\* the low seven bits tried for each byte
Low7 == {0, 1, 63, 64, 126, 127}

NumberSeqs ==
    UNION { { c \o <<128 + l>> : c \in [1..k -> Low7], l \in Low7 } : k \in 0..(MaxNumberLen - 1) }

\* numbers whose last byte never comes
UnfinishedSeqs == UNION { [1..k -> Low7] : k \in 0..MaxNumberLen }

Trailer == [i \in 1..12 |-> 0]

InitDecode ==
    /\ \E prefix \in {<<>>, Magic}, seq \in NumberSeqs \cup UnfinishedSeqs :
          /\ patch_bytes = prefix \o seq \o Trailer
          /\ patch_pos = Len(prefix)
    /\ patch_crc = Zero32
    /\ source_bytes = <<>>
    /\ source_pos = 0
    /\ output = <<>>
    /\ pc = "idle"
    /\ op = "none"
    /\ vframe = NoVFrame
    /\ pframe = NoPFrame
    /\ result = Outcome("none", "none", NoDetails, NoInfo)
    /\ first_outcome = "none"
    /\ pos_before = patch_pos
    /\ edit = "none"
    /\ last_cmd = NoCmd
    /\ decoded_to = -1

\* data = decode_number(bps_patch): result.value is the number returned
CallDecodeNumber ==
    /\ pc = "idle"
    /\ op = "none"
    /\ LET r == decode_number(patch_bytes, patch_pos) IN
       /\ patch_pos' = r.pos
       /\ result' = [op |-> "decode_number",
                     outcome |-> IF r.ok THEN "ok" ELSE "InvalidNumber",
                     details |-> NoDetails, info |-> NoInfo, value |-> r.value]
    /\ op' = "decode_number"
    /\ pos_before' = patch_pos
    /\ decoded_to' = LastRead(patch_bytes, patch_pos)
    /\ UNCHANGED <<patch_bytes, patch_crc, source_bytes, source_pos, output, pc, vframe, pframe,
                   first_outcome, edit, last_cmd>>

NextDecode == CallDecodeNumber

SpecDecode == InitDecode /\ [][NextDecode]_vars

(***************************************************************************)
(* Properties.                                                             *)
(***************************************************************************)
\* patch() has returned its output (line 244)
Returned == pc = "idle" /\ result.op = "patch" /\ result.outcome = "ok"

\* a direct call of validate_patch has returned or raised
Validated == pc = "idle" /\ result.op = "validate_patch"

\* C1: whenever patch() returns for a patch validate_patch accepts and a source
\* whose checksum is the stored one, the output is the byte-by-byte meaning of
\* the command stream (RefApply), which is defined.
C1_PatchEqualsReference ==
    Returned =>
        LET ref == RefApply(patch_bytes, source_bytes)
        IN  ref.defined /\ output = ref.out

\* C2: for a TargetCopy executed by patch() that starts at outread position p
\* with n bytes written, 0 <= p < n, and length L: every iteration copies
\* something, the bytes appended so far are a forward byte-by-byte copy (the
\* i-th appended byte is output[p + i], so the pattern has period n - p), and
\* when the command is over exactly L bytes have been appended.
C2_TargetCopyForward ==
    LET p == pframe.copy_start
        n == pframe.copy_base
        L == pframe.copy_length
        appended == Len(output) - n
    IN  (L >= 1 /\ 0 <= p /\ p < n) =>
            /\ \A i \in 1..appended : output[n + i] = output[p + i]
            /\ output = RefTargetCopy(SubSeq(output, 1, n), p, appended).out
            /\ IF pc = "target_copy"
               THEN /\ pframe.to_go >= 1
                    /\ appended = L - pframe.to_go
                    /\ pframe.outread_position = p + appended
               ELSE appended = L

\* C2's case: a completed TargetCopy longer than the gap between its read and
\* write positions, the gap itself longer than a chunk
C2_Witness ==
    /\ pc = "apply"
    /\ 0 <= pframe.copy_start
    /\ pframe.copy_base - pframe.copy_start > ChunkSize
    /\ pframe.copy_length > pframe.copy_base - pframe.copy_start
    /\ Len(output) = pframe.copy_base + pframe.copy_length

\* C3: whenever patch() returns, the output is as long as the target_size
\* patch_info reports and the source is as long as the source_size it reports.
C3_SizesMatchInfo ==
    Returned =>
        LET info == ReadInfo(patch_bytes).info
        IN  /\ Len(output) = info.target_size
            /\ Len(source_bytes) = info.source_size

\* C4: whenever patch() returns, CRC-32 of the source is the number stored at
\* patch bytes [len-12, len-8) and CRC-32 of the output is the number stored at
\* [len-8, len-4); so an output with another checksum is never returned.
C4_ReturnedChecksums ==
    Returned =>
        /\ crc32(source_bytes) = Word(patch_bytes, Len(patch_bytes) - 12)
        /\ crc32(output) = Word(patch_bytes, Len(patch_bytes) - 8)

\* C4's case: patch() has returned an output that is not empty
C4_Witness == Returned /\ Len(output) >= 1 /\ Len(source_bytes) >= 1

\* C5: when patch() has ended, (a) if validate_patch rejects these bytes the
\* call raised that same error, with no command executed and no output byte,
\* whatever the source; (b) if validate_patch accepts them and the source's
\* checksum differs from the stored one, the call raised the incompatible-source
\* error with no command executed and no output byte; (c) that error is raised
\* for accepted patches only.
C5_PatchChecksInOrder ==
    (pc = "idle" /\ result.op = "patch") =>
        LET v == validate_patch(patch_bytes, patch_crc)
            differs == crc32(source_bytes) # Word(patch_bytes, Len(patch_bytes) - 12)
        IN  /\ v.err # "ok" =>
                  /\ result.outcome = v.err
                  /\ result.details = v.details
                  /\ output = <<>> /\ pframe.commands = 0
            /\ (v.err = "ok" /\ differs) =>
                  /\ result.outcome = "IncompatibleSource"
                  /\ output = <<>> /\ pframe.commands = 0
            /\ result.outcome = "IncompatibleSource" => (v.err = "ok" /\ differs)

\* C5's case: an accepted patch with commands, applied to another source
C5_Witness ==
    /\ pc = "idle" /\ result.op = "patch"
    /\ result.outcome = "IncompatibleSource"
    /\ vframe.target_position >= 1
    /\ Len(source_bytes) >= 1

\* C6: once one bit of the last four bytes of an accepted patch is flipped,
\* every call of validate_patch fails with the checksum error.
C6_FlippedChecksumRejected ==
    (edit = "flip" /\ op = "validate_patch") =>
        /\ pc = "idle"
        /\ result.outcome = "Checksum"

\* C6's case: validate_patch has been called on a patch with a flipped bit
C6_Witness == edit = "flip" /\ Validated /\ result.outcome = "Checksum"

\* C7 as stated: validate_patch fails with "Patch too short." on every stream
\* obtained by cutting an accepted patch down to 0..18 bytes.
C7_TruncatedAlwaysTooShort ==
    (edit = "truncate" /\ Validated) => result.outcome = "TooShort"

\* C7 amended: on an accepted patch cut down to 4..18 bytes validate_patch fails
\* with "Patch too short."; cut down to 0..3 bytes, where the marker is no
\* longer whole, it fails with "Invalid file format marker.".
C7_TruncatedByLength ==
    (edit = "truncate" /\ Validated) =>
        result.outcome = IF Len(patch_bytes) >= 4 THEN "TooShort" ELSE "FormatMarker"

\* C7's case: validate_patch has been called on a stream of 18 bytes
C7_Witness ==
    edit = "truncate" /\ Validated /\ Len(patch_bytes) = 18 /\ result.outcome = "TooShort"

\* C8: every direct call of validate_patch ends as validate_patch does on these
\* bytes read from the start, and as the first call on them ended, wherever the
\* stream stood when the call was made.
C8_OutcomeOfBytesOnly ==
    Validated =>
        /\ result.outcome = validate_patch(patch_bytes, patch_crc).err
        /\ result.outcome = first_outcome

\* C8's case: a call made on an unmodified, accepted patch with the stream left
\* away from its start by an earlier call
C8_Witness ==
    Validated /\ edit = "none" /\ pos_before # 0 /\ result.outcome = "ok"

\* C9: when validate_patch has ended, the stream's position is the one it had
\* when the call was made.
C9_PositionRestored == Validated => patch_pos = pos_before

\* C10: a command whose numbers validate_patch could decode is accepted exactly
\* when every cursor it moves stays within its capacity (target_position <=
\* target_size; for SourceRead also target_position <= source_size; for
\* TargetRead the literal ends at or before length - 12; for SourceCopy the
\* start is >= 0 and source_position <= source_size; for TargetCopy
\* 0 <= outread_position <= target_position - 1), and is otherwise rejected
\* with one of the bounds errors.
C10_AcceptedExactlyWithinCapacity ==
    LET b   == last_cmd.before
        d   == last_cmd.details
        tp  == b.target_position + d.length
        off == d.relative[1]
        within ==
            /\ tp <= b.target_size
            /\ d.command = 0 => tp <= b.source_size
            /\ d.command = 1 =>
                 decode_number(patch_bytes, d.offset).pos + d.length <= b.patch_end - 12
            /\ d.command = 2 =>
                 /\ b.source_position + off >= 0
                 /\ b.source_position + off + d.length <= b.source_size
            /\ d.command = 3 =>
                 /\ b.outread_position + off >= 0
                 /\ b.outread_position + off <= b.target_position - 1
    IN  (last_cmd.seen /\ last_cmd.err # "InvalidNumber") =>
            /\ (last_cmd.err = "ok") <=> within
            /\ last_cmd.err # "ok" =>
                 last_cmd.err \in {"ReadBeyondEndOfSource", "WriteBeyondEndOfTarget",
                                   "TargetReadTooLarge", "ReadBeyondBeginningOfSource",
                                   "ReadBeyondBeginningOfTarget", "ReadBeyondEndOfTarget"}

\* C10's case: an accepted SourceRead that brings target_position to
\* source_size and to target_size at once
C10_Witness ==
    /\ last_cmd.seen /\ last_cmd.err = "ok"
    /\ last_cmd.details.command = 0
    /\ last_cmd.after.target_position = last_cmd.before.source_size
    /\ last_cmd.after.target_position = last_cmd.before.target_size

\* C11: when patch_info has ended on a patch validate_patch rejects, it raised
\* that validation error; when it has returned, the stream stands at 0, the
\* stream begins with the marker, the returned source_size, target_size and
\* metadata length as numbers, and the returned metadata, and source_checksum
\* and final_checksum are the bytes at [len-12, len-8) and [len-8, len-4);
\* and no step of a patch_info call changes the patch bytes.
C11_PatchInfoReadsHeader ==
    /\ [](  (pc = "idle" /\ result.op = "patch_info") =>
              LET v    == validate_patch(patch_bytes, patch_crc)
                  i    == result.info
                  n    == Len(patch_bytes)
                  head == Magic \o EncodeNumber(i.source_size) \o EncodeNumber(i.target_size)
                            \o EncodeNumber(Len(i.metadata)) \o i.metadata
              IN  /\ result.outcome = v.err
                  /\ result.outcome = "ok" =>
                        /\ patch_pos = 0
                        /\ SubSeq(patch_bytes, 1, Len(head)) = head
                        /\ i.source_checksum = SubSeq(patch_bytes, n - 11, n - 8)
                        /\ i.final_checksum = SubSeq(patch_bytes, n - 7, n - 4) )
    /\ [][op' = "patch_info" => patch_bytes' = patch_bytes]_vars

\* C11's case: patch_info has returned the fields of a patch with metadata,
\* called with the stream away from its start
C11_Witness ==
    /\ pc = "idle" /\ result.op = "patch_info" /\ result.outcome = "ok"
    /\ Len(result.info.metadata) >= 2
    /\ result.info.source_size >= 1
    /\ pos_before # 0

\* C12: in a run of validate_patch that succeeds, every byte decode_number has
\* read as part of a header field, a command or a copy offset has an index
\* below length - 12, the start of the stored checksums.
C12_NoChecksumByteDecoded ==
    (Validated /\ result.outcome = "ok") => decoded_to < Len(patch_bytes) - 12

\* C13: when decode_number has returned the number written in the byte
\* sequence at the stream's position (bytes with the high bit clear, then one
\* with it set), the stream has advanced by exactly the length of the
\* sequence, no other such sequence decodes to the same number, and the
\* sequence is the one encoding of that number.
C13_NoRedundantEncoding ==
    (op = "decode_number" /\ result.outcome = "ok") =>
        LET seq == SubSeq(patch_bytes, pos_before + 1, Len(patch_bytes) - 12)
        IN  /\ patch_pos = pos_before + Len(seq)
            /\ \A other \in NumberSeqs :
                  decode_number(other \o Trailer, 0).value = result.value => other = seq
            /\ EncodeNumber(result.value) = seq

\* C13's case: a number of three bytes whose first bytes are 0 has been decoded
C13_Witness ==
    /\ op = "decode_number" /\ result.outcome = "ok"
    /\ patch_pos = pos_before + 3
    /\ patch_bytes[pos_before + 1] = 0
    /\ patch_bytes[pos_before + 2] = 0

\* C14: validate_patch ends with the error of the first check that fails, in
\* the order marker, minimum length, patch checksum, source size, target size,
\* metadata size, metadata extent, commands in stream order, final size: each
\* error is reported exactly when its check fails and every earlier one passes
\* (a failed command is the last one looked at, and hides a wrong final size).
C14_FirstFailingCheck ==
    Validated =>
        LET n   == Len(patch_bytes)
            e   == result.outcome
            s   == decode_number(patch_bytes, 4)
            t   == decode_number(patch_bytes, s.pos)
            m   == decode_number(patch_bytes, t.pos)
            c1  == SubSeq(patch_bytes, 1, Min(4, n)) # <<66, 80, 83, 49>>
            c2  == n < 19
            c3  == patch_crc # SubSeq(patch_bytes, n - 3, n)
            c4  == ~s.ok
            c5  == ~t.ok
            c6  == ~m.ok
            c7  == m.pos + m.value > n - 12
            c8  == last_cmd.seen /\ last_cmd.err # "ok"
            c9  == vframe.target_position # vframe.target_size
        IN  IF c1 THEN e = "FormatMarker"
            ELSE IF c2 THEN e = "TooShort"
            ELSE IF c3 THEN e = "Checksum"
            ELSE IF c4 THEN e = "DecodeSourceSize"
            ELSE IF c5 THEN e = "DecodeTargetSize"
            ELSE IF c6 THEN e = "DecodeMetadataSize"
            ELSE IF c7 THEN e = "MetadataTooLarge"
            ELSE IF c8 THEN e = last_cmd.err
            ELSE IF c9 THEN e = "FinalSize"
            ELSE e = "ok"

\* C14's case: a stream of full length with another marker and a wrong patch
\* checksum, whose header numbers never end
C14_Witness ==
    /\ Validated
    /\ result.outcome = "FormatMarker"
    /\ Len(patch_bytes) >= 19
    /\ patch_crc # Word(patch_bytes, Len(patch_bytes) - 4)
    /\ ~decode_number(patch_bytes, 4).ok

\* C15: after every command validate_patch accepts, source_position is within
\* 0..source_size, target_position is within 0..target_size and has grown by
\* exactly the command's length, which is at least 1; validate_patch returns
\* only with target_position = target_size, and when the loop ends after
\* accepted commands with another target_position it fails with the
\* size-mismatch error.
C15_CursorsWithinSizes ==
    /\ (last_cmd.seen /\ last_cmd.err = "ok") =>
          LET a == last_cmd.after
              b == last_cmd.before
          IN  /\ 0 <= a.source_position /\ a.source_position <= a.source_size
              /\ 0 <= a.target_position /\ a.target_position <= a.target_size
              /\ last_cmd.details.length >= 1
              /\ a.target_position = b.target_position + last_cmd.details.length
    /\ pc = "validate" =>
          /\ 0 <= vframe.source_position /\ vframe.source_position <= vframe.source_size
          /\ 0 <= vframe.target_position /\ vframe.target_position <= vframe.target_size
    /\ Validated =>
          /\ result.outcome = "ok" =>
                /\ vframe.target_position = vframe.target_size
                /\ patch_pos >= Len(patch_bytes) - 12
          /\ result.outcome = "FinalSize" =>
                /\ vframe.target_position # vframe.target_size
                /\ patch_pos >= Len(patch_bytes) - 12
          /\ (result.outcome \in {"ok", "FinalSize"}
                /\ vframe.target_position # vframe.target_size) => result.outcome = "FinalSize"

\* C15's case: the loop has ended after an accepted SourceCopy that brought
\* source_position to source_size, with fewer bytes written than target_size
C15_Witness ==
    /\ Validated /\ result.outcome = "FinalSize"
    /\ last_cmd.seen /\ last_cmd.err = "ok" /\ last_cmd.details.command = 2
    /\ vframe.source_position = vframe.source_size
    /\ vframe.target_position < vframe.target_size

\* C16 as stated: in every state of validate_patch's command loop, the one
\* before the first command included, 0 <= outread_position < target_position.
C16_OutreadBelowTargetAlways ==
    pc = "validate" =>
        /\ 0 <= vframe.outread_position
        /\ vframe.outread_position < vframe.target_position

\* C16 amended: in every state of the command loop reached by an accepted
\* command, and when validate_patch has returned after one,
\* 0 <= outread_position < target_position; in the state before the first
\* command both are 0.
C16_OutreadBelowTargetAfterCommand ==
    (pc = "validate" \/ (Validated /\ result.outcome = "ok")) =>
        IF last_cmd.seen
        THEN /\ 0 <= vframe.outread_position
             /\ vframe.outread_position < vframe.target_position
        ELSE vframe.outread_position = 0 /\ vframe.target_position = 0

\* C16's case: an accepted TargetCopy that started at target_position - 1 has
\* advanced outread_position by its length
C16_Witness ==
    /\ pc = "validate"
    /\ last_cmd.seen /\ last_cmd.err = "ok" /\ last_cmd.details.command = 3
    /\ vframe.outread_position = vframe.target_position - 1
    /\ vframe.outread_position >= 2

\* C17: while patch() runs its command loop on a source as long as the
\* header's source_size, after each command the output is as long as
\* validate_patch's target_position after as many commands, the source
\* stream's position is its source_position, the applier's outread_position is
\* its outread_position, and the patch stream is where validate_patch was.
C17_ApplierFollowsValidator ==
    (op = "patch" /\ pc = "apply" /\ Len(source_bytes) = vframe.source_size) =>
        LET v == ValidatorAfter(patch_bytes, patch_crc, pframe.commands)
        IN  /\ Len(output) = v.f.target_position
            /\ source_pos = v.f.source_position
            /\ pframe.outread_position = v.f.outread_position
            /\ patch_pos = v.pos

\* C17's case: a SourceCopy and a TargetCopy have been applied to a source
\* that is not empty
C17_Witness ==
    /\ op = "patch" /\ pc = "apply"
    /\ Len(source_bytes) = vframe.source_size
    /\ pframe.commands = 2
    /\ source_pos >= 1
    /\ pframe.outread_position >= 1

\* C18: every iteration of the copy loop of a TargetCopy in patch() has
\* step >= 1, so that it lowers the number of bytes left to copy.
C18_CopyStepPositive ==
    pc = "target_copy" =>
        Min(Len(output) - pframe.outread_position, ChunkSize) >= 1

\* C19: a bounds error raised by validate_patch's command loop carries the
\* command's tag and offset and the three cursors as they are when it is
\* raised: source_position, target_position and outread_position.
C19_ErrorCarriesCursors ==
    (Validated /\ result.outcome \in
        {"ReadBeyondEndOfSource", "WriteBeyondEndOfTarget", "TargetReadTooLarge",
         "ReadBeyondBeginningOfSource", "ReadBeyondBeginningOfTarget",
         "ReadBeyondEndOfTarget"}) =>
        LET d == result.details
        IN  /\ decode_number(patch_bytes, d.offset).value % 4 = d.command
            /\ d.source_position = vframe.source_position
            /\ d.target_position = vframe.target_position
            /\ "outread_position" \in DOMAIN d
            /\ d.outread_position = vframe.outread_position

====
